---- MODULE Spec2Model ----
(***************************************************************************)
(* A model of the request dispatch plane of the LLM platform:              *)
(*   src/src/services/load_balancer.py   LoadBalancer, InstanceMetrics     *)
(*   src/src/services/llm_service.py     LLMService.generate               *)
(*   src/src/main.py                     the /api/chat handler             *)
(* Every coroutine runs on one asyncio event loop, so the code between two *)
(* suspension points (await on I/O, yield) is one atomic action.  The      *)
(* registry lock is never held across a suspension point, hence every      *)
(* LoadBalancer method is one action.                                      *)
(***************************************************************************)
EXTENDS Integers, Sequences, FiniteSets, TLC

\* ------------------------------------------------------------------ bounds
MaxRequests == 3        \* get_instance calls (LoadBalancer.total_requests)
MaxUpdates == 6         \* update_metrics calls per backend
MaxProbeFailures == 1   \* health_check_failures per backend
MaxCalls == 3           \* LLMService.generate calls (stats.total_requests)
MaxFailing == 6         \* generate calls of the failover scenario
MaxStreams == 2         \* streaming generate calls
MaxFrames == 2          \* response frames of one upstream stream
MaxChats == 3           \* /api/chat requests
MaxCacheClock == 2      \* seconds the cache scenario runs for
MaxCacheCounts == 2     \* hits + misses + errors counted by CacheService
MaxWindowRequests == 6  \* requests counted in the clients' current windows
MaxRateClock == 62      \* seconds the rate limiting scenario runs for
MaxConversations == 2   \* rows of the conversations table
MaxJobs == 2            \* rows of the finetune_jobs table

\* ------------------------------------------------------- program constants
ERROR_THRESHOLD == 5    \* load_balancer.py:195  error_count >= 5
STOP_AFTER_ATTEMPT == 3 \* llm_service.py:49     stop_after_attempt(3)
CACHE_TTL == 3600       \* settings.py:29        CACHE_TTL: int = 3600
RATE_LIMIT_PER_MINUTE == 60  \* settings.py:52
FINETUNE_LIMIT == 10    \* middleware.py:62
PULL_LIMIT == 5         \* middleware.py:64
WINDOW == 60            \* middleware.py:34      current_time - window_start > 60

Ids == {"ollama-1", "ollama-2"}
Weights == {0, 1}
Strategies == {"round_robin", "least_connections", "random", "weighted"}
NoId == "None"

\* --------------------------------------------------------------- variables
VARIABLES
  strategy,              \* LoadBalancer.strategy
  instances,             \* LoadBalancer.instances, in dict (insertion) order
  instance_list,         \* LoadBalancer.instance_list
  request_distribution,  \* LoadBalancer.request_distribution
  current_index,         \* LoadBalancer.current_index
  total_requests,        \* LoadBalancer.total_requests
  probing,               \* health probes in flight: id -> "no", "live", "stale_up", "stale_down"
  last_return,           \* what the last operation returned or raised
  rr_count,              \* selections per backend since the candidate list last changed
  rr_cursor,             \* number of round-robin selections made so far
  last_probe,            \* id -> outcome of the backend's latest probe
  health_event,          \* id -> the latest operation that wrote is_healthy
  gen,                   \* LLMService.generate calls: slot -> record
  stats,                 \* LLMService.stats
  fail_streak,           \* id -> failed generations since the backend's last completed one
  cache,                 \* LLMService.cache_service: redis handle, stored entries, counters
  chat,                  \* /api/chat handlers of main.py: slot -> record
  rate_limits,           \* RateLimitMiddleware.rate_limits: client -> <<requests, window_start>>
  clock,                 \* time.time() and the clock of the Redis server, in seconds
  seen,                  \* what the last cache, middleware or API call returned
  db                     \* the SQL database: users, conversations, fine-tune jobs

lbvars == <<strategy, instances, instance_list, request_distribution,
            current_index, total_requests>>
ghostvars == <<last_return, rr_count, rr_cursor, last_probe, health_event>>
genvars == <<gen, stats, fail_streak, cache>>
vars == <<strategy, instances, instance_list, request_distribution,
          current_index, total_requests, probing, last_return, rr_count,
          rr_cursor, last_probe, health_event, gen, stats, fail_streak, cache,
          chat, rate_limits, clock, seen, db>>

\* ------------------------------------------------------- InstanceMetrics
\* The fields of the dataclass.  url and the two timestamps are kept out of
\* the state: nothing reads them back.
InstanceMetricsFields ==
  {"instance_id", "url", "active_connections", "total_requests",
   "successful_requests", "failed_requests", "total_response_time",
   "average_response_time", "total_tokens", "last_request_time",
   "last_error_time", "error_count", "is_healthy", "health_check_failures",
   "weight"}

InstanceMetrics(id, w) ==
  [instance_id |-> id, active_connections |-> 0, total_requests |-> 0,
   successful_requests |-> 0, failed_requests |-> 0,
   total_response_time |-> 0, total_tokens |-> 0, error_count |-> 0,
   is_healthy |-> TRUE, health_check_failures |-> 0, weight |-> w]

Max(a, b) == IF a >= b THEN a ELSE b

RECURSIVE SumSeq(_)
SumSeq(s) == IF s = <<>> THEN 0 ELSE Head(s) + SumSeq(Tail(s))

IdsOf(s) == [i \in 1..Len(s) |-> s[i].instance_id]
Registered == {instances[i].instance_id : i \in 1..Len(instances)}
Has(id) == id \in Registered
Pos(id) == CHOOSE i \in 1..Len(instances) : instances[i].instance_id = id
Inst(id) == instances[Pos(id)]
Zeros == [id \in Ids |-> 0]

\* instances.values() filtered on is_healthy, falling back to all of them
healthy_instances_unfiltered(all) == all
healthy_instances(all) ==
  LET healthy == SelectSeq(all, LAMBDA inst : inst.is_healthy)
  IN IF healthy = <<>> THEN all ELSE healthy

Candidates == healthy_instances(instances)
CandIds == IdsOf(Candidates)
AnyHealthy == \E i \in 1..Len(instances) : instances[i].is_healthy

\* --------------------------------------------------- selection strategies
\* Each gives the set of positions (1-based) of `cands` the strategy may pick.
round_robin_stuck(cands) == 1
round_robin_skip(cands) ==
  IF current_index + 1 >= Len(cands) THEN 1 ELSE current_index + 2
round_robin_select(cands) ==
  IF current_index >= Len(cands) THEN 1 ELSE current_index + 1

\* min(instances, key=active_connections): the first minimal element
least_connections_first(cands) == 1
least_connections_last(cands) ==
  CHOOSE i \in 1..Len(cands) :
    /\ \A j \in 1..Len(cands) : cands[i].active_connections <= cands[j].active_connections
    /\ \A j \in (i + 1)..Len(cands) : cands[j].active_connections > cands[i].active_connections
least_connections_select(cands) ==
  CHOOSE i \in 1..Len(cands) :
    /\ \A j \in 1..Len(cands) : cands[i].active_connections <= cands[j].active_connections
    /\ \A j \in 1..(i - 1) : cands[j].active_connections > cands[i].active_connections

random_select(cands) == 1..Len(cands)

\* random.choices(instances, weights): an element of zero weight is never drawn
weighted_select_uniform(cands) == 1..Len(cands)
weighted_select(cands) == {i \in 1..Len(cands) : cands[i].weight > 0}
TotalWeight(cands) == SumSeq([i \in 1..Len(cands) |-> cands[i].weight])

SelectFrom(cands) ==
  CASE strategy = "round_robin"       -> {round_robin_select(cands)}
    [] strategy = "least_connections" -> {least_connections_select(cands)}
    [] strategy = "random"            -> random_select(cands)
    [] strategy = "weighted"          -> weighted_select(cands)
    [] OTHER                          -> {round_robin_select(cands)}

\* ------------------------------------------------------ LoadBalancer methods
\* Each is the transition of the registry's own fields; `res` is what the
\* method returns or the exception it raises.

add_instance_overwrite(id, w) ==
  /\ instances' = IF Has(id)
                   THEN [instances EXCEPT ![Pos(id)] = InstanceMetrics(id, w)]
                   ELSE Append(instances, InstanceMetrics(id, w))
  /\ instance_list' = Append(instance_list, id)
  /\ request_distribution' =
       [i \in (DOMAIN request_distribution) \cup {id} |->
          IF i = id THEN 0 ELSE request_distribution[i]]

add_instance(id, w) ==
  IF Has(id)
  THEN UNCHANGED <<instances, instance_list, request_distribution>>
  ELSE /\ instances' = Append(instances, InstanceMetrics(id, w))
       /\ instance_list' = Append(instance_list, id)
       /\ request_distribution' =
            [i \in (DOMAIN request_distribution) \cup {id} |->
               IF i = id THEN 0 ELSE request_distribution[i]]

remove_instance_keeps_distribution(id) ==
  IF Has(id)
  THEN /\ instances' = SelectSeq(instances, LAMBDA inst : inst.instance_id # id)
       /\ instance_list' = SelectSeq(instance_list, LAMBDA i : i # id)
       /\ UNCHANGED request_distribution
  ELSE UNCHANGED <<instances, instance_list, request_distribution>>
remove_instance(id) ==
  IF Has(id)
  THEN /\ instances' = SelectSeq(instances, LAMBDA inst : inst.instance_id # id)
       /\ instance_list' = SelectSeq(instance_list, LAMBDA i : i # id)
       /\ request_distribution' =
            [i \in (DOMAIN request_distribution) \ {id} |-> request_distribution[i]]
  ELSE UNCHANGED <<instances, instance_list, request_distribution>>

\* the selected backend is reserved: `instance.active_connections += 1` and
\* `instance.total_requests += 1`
reserve_uncounted(id) ==
  [instances EXCEPT ![Pos(id)].active_connections = @ + 1]
reserve(id) ==
  [instances EXCEPT ![Pos(id)].active_connections = @ + 1,
                    ![Pos(id)].total_requests = @ + 1]

get_instance(res) ==
  /\ total_requests' = total_requests + 1
  /\ UNCHANGED <<strategy, instance_list>>
  /\ IF instances = <<>>
     THEN /\ res = "RuntimeError"
          /\ UNCHANGED <<instances, request_distribution, current_index>>
     ELSE LET cands == healthy_instances(instances) IN
          IF strategy = "weighted" /\ TotalWeight(cands) <= 0
          THEN \* random.choices: "Total of weights must be greater than zero"
               /\ res = "ValueError"
               /\ UNCHANGED <<instances, request_distribution, current_index>>
          ELSE \E p \in SelectFrom(cands) :
                 LET id == cands[p].instance_id IN
                 /\ res = id
                 /\ current_index' =
                      IF strategy \in {"least_connections", "random", "weighted"}
                      THEN current_index ELSE p
                 /\ instances' = reserve(id)
                 /\ request_distribution' =
                      [request_distribution EXCEPT ![id] = @ + 1]

release_instance_unfloored(id) ==
  IF Has(id)
  THEN instances' = [instances EXCEPT ![Pos(id)].active_connections = @ - 1]
  ELSE UNCHANGED instances

release_instance(id) ==
  IF Has(id)
  THEN instances' = [instances EXCEPT
         ![Pos(id)].active_connections = Max(0, @ - 1)]
  ELSE UNCHANGED instances

update_metrics_strict_threshold(id, success, response_time, tokens_used) ==
  IF Has(id)
  THEN LET inst == Inst(id)
           base == [inst EXCEPT !.active_connections = Max(0, @ - 1)]
       IN instances' = [instances EXCEPT ![Pos(id)] =
            IF success
            THEN [base EXCEPT !.successful_requests = @ + 1,
                              !.total_response_time = @ + response_time,
                              !.total_tokens = @ + tokens_used,
                              !.error_count = 0]
            ELSE [base EXCEPT !.failed_requests = @ + 1,
                              !.error_count = @ + 1,
                              !.is_healthy =
                                 IF inst.error_count + 1 > ERROR_THRESHOLD
                                 THEN FALSE ELSE @]]
  ELSE UNCHANGED instances

update_metrics_keeps_errors(id, success, response_time, tokens_used) ==
  IF Has(id)
  THEN LET inst == Inst(id)
           base == [inst EXCEPT !.active_connections = Max(0, @ - 1)]
       IN instances' = [instances EXCEPT ![Pos(id)] =
            IF success
            THEN [base EXCEPT !.successful_requests = @ + 1,
                              !.total_response_time = @ + response_time,
                              !.total_tokens = @ + tokens_used]
            ELSE [base EXCEPT !.failed_requests = @ + 1,
                              !.error_count = @ + 1,
                              !.is_healthy =
                                 IF inst.error_count + 1 >= ERROR_THRESHOLD
                                 THEN FALSE ELSE @]]
  ELSE UNCHANGED instances

update_metrics(id, success, response_time, tokens_used) ==
  IF Has(id)
  THEN LET inst == Inst(id)
           base == [inst EXCEPT !.active_connections = Max(0, @ - 1)]
       IN instances' = [instances EXCEPT ![Pos(id)] =
            IF success
            THEN [base EXCEPT !.successful_requests = @ + 1,
                              !.total_response_time = @ + response_time,
                              !.total_tokens = @ + tokens_used,
                              !.error_count = 0]
            ELSE [base EXCEPT !.failed_requests = @ + 1,
                              !.error_count = @ + 1,
                              !.is_healthy =
                                 IF inst.error_count + 1 >= ERROR_THRESHOLD
                                 THEN FALSE ELSE @]]
  ELSE UNCHANGED instances

mark_unhealthy_registers(id) ==
  IF Has(id)
  THEN instances' = [instances EXCEPT ![Pos(id)].is_healthy = FALSE,
                                      ![Pos(id)].health_check_failures = @ + 1]
  ELSE instances' = Append(instances, [InstanceMetrics(id, 1) EXCEPT
                                          !.is_healthy = FALSE,
                                          !.health_check_failures = 1])
mark_unhealthy(id) ==
  IF Has(id)
  THEN instances' = [instances EXCEPT ![Pos(id)].is_healthy = FALSE,
                                      ![Pos(id)].health_check_failures = @ + 1]
  ELSE UNCHANGED instances

mark_healthy_keeps_failures(id) ==
  IF Has(id)
  THEN instances' = [instances EXCEPT ![Pos(id)].is_healthy = TRUE]
  ELSE UNCHANGED instances
mark_healthy_resets_errors(id) ==
  IF Has(id)
  THEN instances' = [instances EXCEPT ![Pos(id)].is_healthy = TRUE,
                                      ![Pos(id)].health_check_failures = 0,
                                      ![Pos(id)].error_count = 0]
  ELSE UNCHANGED instances
mark_healthy(id) ==
  IF Has(id)
  THEN instances' = [instances EXCEPT ![Pos(id)].is_healthy = TRUE,
                                      ![Pos(id)].health_check_failures = 0]
  ELSE UNCHANGED instances

\* ---------------------------------------------------------- observers
\* What the properties read; no operation of the program depends on them.
Track(ret) ==
  /\ last_return' = ret
  /\ rr_cursor' = IF ret \in Ids /\ strategy = "round_robin"
                  THEN rr_cursor + 1 ELSE rr_cursor
  /\ rr_count' =
       IF IdsOf(healthy_instances(instances')) # CandIds THEN Zeros
       ELSE IF ret \in Ids /\ strategy = "round_robin"
            THEN [rr_count EXCEPT ![ret] = @ + 1]
            ELSE rr_count

HealthEventAfter(id, ev) ==
  health_event' = IF Has(id) THEN [health_event EXCEPT ![id] = ev] ELSE health_event

\* ------------------------------------------------ initial state of the parts
ProbeStatuses == {"200", "204", "503", "error"}
ResponseTimes == {1}
TokenCounts == {1}
Slots == 1..2

Prompts == {"p1", "p2"}
\* the response fields of the frames a backend streams, in order
StreamText == <<"a", "b", "c", "d">>
Texts == {"", "hello"}
NoValue == [nil |-> TRUE]

IdleGen == [pc |-> "idle", stream |-> FALSE, cache |-> FALSE, prompt |-> "p1",
            instance |-> NoId, reserved |-> 0, updates |-> <<>>,
            outcome |-> "none", error |-> "none", pending_done |-> FALSE,
            sent |-> <<>>, delivered |-> <<>>]
IdleChat == [pc |-> "idle", stream |-> FALSE, attempts |-> 0, failed |-> 0,
             status |-> 0, body |-> "none"]

InitLB(registered, strategies) ==
  /\ strategy \in strategies
  /\ instances = registered
  /\ instance_list = IdsOf(registered)
  /\ request_distribution = [id \in {registered[i].instance_id : i \in 1..Len(registered)} |-> 0]
  /\ current_index = 0
  /\ total_requests = 0
  /\ probing = [id \in Ids |-> "no"]

InitObservers ==
  /\ last_return = NoId
  /\ rr_count = Zeros
  /\ rr_cursor = 0
  /\ last_probe = [id \in Ids |-> "none"]
  /\ health_event = [id \in Ids |-> "init"]

InitGen ==
  /\ gen = [s \in Slots |-> IdleGen]
  /\ stats = [total_requests |-> 0, cache_hits |-> 0, errors |-> 0, total_tokens |-> 0]
  /\ fail_streak = Zeros

\* CacheService() as LLMService constructs it: initialize() has not run, redis
\* is None.  `connected` is the state after CacheService.initialize() reached
\* the server, whose entries outlive the process.
InitCache(connected) ==
  /\ cache \in [redis : connected,
                store : IF TRUE \in connected
                        THEN {[k \in Prompts |-> NoValue],
                              [k \in Prompts |-> IF k = "p1"
                                                 THEN [json |-> "hello",
                                                       expires |-> CACHE_TTL]
                                                 ELSE NoValue]}
                        ELSE {[k \in Prompts |-> NoValue]},
                hits : {0}, misses : {0}, errors : {0}]

InitChat == chat = [c \in 1..MaxChats |-> IdleChat]

\* RateLimitMiddleware(app) as constructed; no cache or middleware call made yet
Clients == {"10.0.0.1", "10.0.0.2"}
NoWindow == <<>>
NothingSeen == [op |-> "none"]
InitMiddleware ==
  /\ rate_limits = [c \in Clients |-> NoWindow]
  /\ clock = 0
  /\ seen = NothingSeen

\* the database after create_all: no rows
UserIds == {1, 2}
\* the identities a request can carry: a user, or the API key's User(id=0)
CallerIds == {0} \cup UserIds
ConvIds == 1..MaxConversations
\* conversations: id -> user_id of the row, NoRow where there is none
NoRow == -1
InitDatabase ==
  db = [users |-> [u \in UserIds |-> "absent"],
        conversations |-> [n \in ConvIds |-> NoRow],
        jobs |-> <<>>]

UnchangedGen ==
  UNCHANGED <<gen, stats, fail_streak, cache, chat, rate_limits, clock, seen, db>>

\* --------------------------------------- the registry's API, called directly
CallAddInstance ==
  \E id \in Ids, w \in Weights :
    /\ add_instance(id, w)
    /\ UNCHANGED <<strategy, current_index, total_requests, probing>>
    /\ Track(NoId)
    /\ UNCHANGED <<last_probe, health_event>>
    \* a call naming a registered id is remembered with its arguments
    /\ seen' = IF Has(id) THEN [op |-> "add_instance", id |-> id, weight |-> w]
               ELSE NothingSeen
    /\ UNCHANGED <<gen, stats, fail_streak, cache, chat, rate_limits, clock, db>>

CallRemoveInstance ==
  \E id \in Ids :
    /\ remove_instance(id)
    /\ UNCHANGED <<strategy, current_index, total_requests>>
    \* a probe in flight keeps the removed InstanceMetrics object
    /\ probing' = IF Has(id) /\ probing[id] = "live"
                  THEN [probing EXCEPT ![id] =
                          IF Inst(id).is_healthy THEN "stale_up" ELSE "stale_down"]
                  ELSE probing
    /\ Track(NoId)
    /\ last_probe' = [last_probe EXCEPT ![id] = "none"]
    /\ health_event' = [health_event EXCEPT ![id] = "init"]
    /\ UnchangedGen

CallGetInstance ==
  /\ total_requests < MaxRequests
  /\ \E res \in Ids \cup {"RuntimeError", "ValueError"} :
       /\ get_instance(res)
       /\ Track(res)
  /\ UNCHANGED <<probing, last_probe, health_event>>
  /\ UnchangedGen

CallReleaseInstance ==
  \E id \in Ids :
    /\ release_instance(id)
    /\ UNCHANGED <<strategy, instance_list, request_distribution, current_index,
                   total_requests, probing, last_probe, health_event>>
    /\ Track(NoId)
    /\ UnchangedGen

CallUpdateMetrics ==
  \E id \in Ids, success \in BOOLEAN, rt \in ResponseTimes, tok \in TokenCounts :
    /\ Has(id) => Inst(id).successful_requests + Inst(id).failed_requests < MaxUpdates
    /\ update_metrics(id, success, rt, tok)
    /\ UNCHANGED <<strategy, instance_list, request_distribution, current_index,
                   total_requests, probing, last_probe>>
    /\ Track(NoId)
    /\ IF ~success /\ Has(id) /\ Inst(id).error_count + 1 >= ERROR_THRESHOLD
       THEN HealthEventAfter(id, "error_threshold")
       ELSE UNCHANGED health_event
    /\ UnchangedGen

CallMarkHealthy ==
  \E id \in Ids :
    /\ mark_healthy(id)
    /\ UNCHANGED <<strategy, instance_list, request_distribution, current_index,
                   total_requests, probing, last_probe>>
    /\ Track(NoId)
    /\ HealthEventAfter(id, "mark_healthy")
    /\ UnchangedGen

CallMarkUnhealthy ==
  \E id \in Ids :
    /\ Has(id) => Inst(id).health_check_failures < MaxProbeFailures
    /\ mark_unhealthy(id)
    /\ UNCHANGED <<strategy, instance_list, request_distribution, current_index,
                   total_requests, probing, last_probe>>
    /\ Track(NoId)
    /\ HealthEventAfter(id, "mark_unhealthy")
    /\ UnchangedGen

\* ------------------------------------------------------------ health prober
\* _perform_health_checks: one probe per registered backend, all in flight
\* together; the next round starts after the whole round has answered.
PerformHealthChecks ==
  /\ instances # <<>>
  /\ \A id \in Ids : probing[id] = "no"
  /\ probing' = [id \in Ids |-> IF Has(id) THEN "live" ELSE "no"]
  /\ UNCHANGED lbvars
  /\ Track(NoId)
  /\ UNCHANGED <<last_probe, health_event>>
  /\ UnchangedGen

\* _check_instance_health once the probe of `id` has answered with `status`
\* ("error": the request raised or timed out)
ProbeSucceeded_2xx(status) == status \in {"200", "204"}
ProbeSucceeded(status) == status = "200"
check_instance_health(id, status) ==
  LET seen_healthy == IF probing[id] = "live" THEN Inst(id).is_healthy
                      ELSE probing[id] = "stale_up"
  IN IF ProbeSucceeded(status)
     THEN /\ IF ~seen_healthy THEN mark_healthy(id) ELSE UNCHANGED instances
          /\ IF ~seen_healthy THEN HealthEventAfter(id, "mark_healthy")
             ELSE UNCHANGED health_event
     ELSE /\ mark_unhealthy(id)
          /\ HealthEventAfter(id, "mark_unhealthy")

CheckInstanceHealth ==
  \E id \in Ids, status \in ProbeStatuses :
    /\ probing[id] # "no"
    /\ (Has(id) /\ ~ProbeSucceeded(status))
          => Inst(id).health_check_failures < MaxProbeFailures
    /\ check_instance_health(id, status)
    /\ probing' = [probing EXCEPT ![id] = "no"]
    /\ last_probe' = IF Has(id)
                     THEN [last_probe EXCEPT ![id] =
                             IF ProbeSucceeded(status) THEN "ok" ELSE "fail"]
                     ELSE last_probe
    /\ UNCHANGED <<strategy, instance_list, request_distribution, current_index,
                   total_requests>>
    /\ Track(NoId)
    /\ UnchangedGen

\* ------------------------------------------- the registry and its selection
\* LoadBalancer(strategy) as constructed, driven through add_instance,
\* remove_instance, get_instance and the two health marks.
InitSel ==
  InitLB(<<>>, Strategies) /\ InitObservers /\ InitGen /\ InitCache({FALSE}) /\ InitChat /\ InitMiddleware /\ InitDatabase
NextSel ==
  \/ CallAddInstance
  \/ CallRemoveInstance
  \/ CallGetInstance
  \/ CallMarkHealthy
  \/ CallMarkUnhealthy
SpecSel == InitSel /\ [][NextSel]_vars

\* LoadBalancer(LEAST_CONNECTIONS): backends are registered in any order,
\* reserved and released.
InitLeast ==
  /\ InitLB(<<>>, {"least_connections"})
  /\ InitObservers /\ InitGen /\ InitCache({FALSE}) /\ InitChat /\ InitMiddleware /\ InitDatabase
NextLeast ==
  \/ CallAddInstance
  \/ CallRemoveInstance
  \/ CallGetInstance
  \/ CallReleaseInstance
  \/ CallMarkHealthy
  \/ CallMarkUnhealthy
SpecLeast == InitLeast /\ [][NextLeast]_vars

\* ------------------------------------------------- health and metrics
\* LoadBalancer() with its default strategy and one backend registered, as
\* initialize() leaves it for a single URL; requests are reserved and
\* reported, the prober runs, and the marks are also called directly.  The
\* second id is never registered: calls naming it find no backend.
InitHealth ==
  /\ InitLB(<<InstanceMetrics("ollama-1", 1)>>, {"round_robin"})
  /\ InitObservers /\ InitGen /\ InitCache({FALSE}) /\ InitChat /\ InitMiddleware /\ InitDatabase
NextHealth ==
  \/ CallGetInstance
  \/ CallUpdateMetrics
  \/ CallReleaseInstance
  \/ CallMarkHealthy
  \/ CallMarkUnhealthy
  \/ PerformHealthChecks
  \/ CheckInstanceHealth
SpecHealth == InitHealth /\ [][NextHealth]_vars

\* The prober over a registry whose backends are added, removed and marked
\* while probes are in flight; each answered probe is remembered with the
\* status it got and what the probe's InstanceMetrics object said.
ProbeAnswered ==
  \E id \in Ids, status \in ProbeStatuses :
    /\ probing[id] # "no"
    /\ (Has(id) /\ ~ProbeSucceeded(status))
          => Inst(id).health_check_failures < MaxProbeFailures
    /\ check_instance_health(id, status)
    /\ probing' = [probing EXCEPT ![id] = "no"]
    /\ last_probe' = IF Has(id)
                     THEN [last_probe EXCEPT ![id] =
                             IF ProbeSucceeded(status) THEN "ok" ELSE "fail"]
                     ELSE last_probe
    /\ UNCHANGED <<strategy, instance_list, request_distribution, current_index,
                   total_requests>>
    /\ Track(NoId)
    /\ seen' = [op |-> "probe", id |-> id, status |-> status,
                live |-> probing[id] = "live",
                object_healthy |-> IF probing[id] = "live" THEN Inst(id).is_healthy
                                   ELSE probing[id] = "stale_up",
                round |-> IF seen.op = "probe" THEN 1 - seen.round ELSE 0]
    /\ UNCHANGED <<gen, stats, fail_streak, cache, chat, rate_limits, clock, db>>

NextProbe ==
  \/ CallAddInstance
  \/ CallRemoveInstance
  \/ CallMarkHealthy
  \/ CallMarkUnhealthy
  \/ PerformHealthChecks
  \/ ProbeAnswered
SpecProbe == InitHealth /\ [][NextProbe]_vars

\* ------------------------------------------------ LLMService.generate
\* One record of `gen` per call, pc naming the suspension point it waits at:
\*   cache_get    awaiting CacheService.get          upstream   awaiting the POST
\*   streaming    awaiting the next NDJSON line      yielded    suspended at `yield chunk`
\*   yield_cached, yield_final, yield_error          suspended at the other yields
\*   backoff      the retry wrapper sleeping         done, raised, closed, cancelled
AtYield == {"yielded", "yield_cached", "yield_final", "yield_error"}
Awaiting == {"cache_get", "upstream", "streaming"}
Finished == {"done", "raised", "closed", "cancelled"}
GetInstanceErrors == {"RuntimeError", "ValueError"}

\* `instance.<name>` evaluates only for a field of InstanceMetrics; generate
\* reads `instance.id`.
\* (a record type on which every attribute read succeeds)
AttrOk_any(name) == TRUE
AttrOk(name) == name \in InstanceMetricsFields

\* @retry wraps an async generator function: tenacity picks AsyncRetrying for
\* coroutine functions only, so the wrapper calls generate once, gets the
\* generator object back without running its body, and never sees the body's
\* exceptions.
retry_wraps_body_always == TRUE
retry_wraps_body == FALSE

\* _generate_cache_key: a digest of model, prompt, temperature and max_tokens;
\* the calls of this model differ in the prompt only.
cache_key(g) == g.prompt

\* CacheService.get(key); `answer` is what the server does with the request
\* an entry written by SETEX is readable until its ttl has elapsed
Live(key) == cache.store[key] # NoValue /\ clock < cache.store[key].expires
cache_get_value(key, answer) ==
  IF ~cache.redis THEN NoValue
  ELSE IF answer = "error" THEN NoValue
  ELSE IF Live(key) THEN cache.store[key] ELSE NoValue
cache_after_get_counting(key, answer) ==
  IF ~cache.redis \/ answer = "error" THEN [cache EXCEPT !.errors = @ + 1]
  ELSE IF Live(key) THEN [cache EXCEPT !.hits = @ + 1]
  ELSE [cache EXCEPT !.misses = @ + 1]
cache_after_get(key, answer) ==
  IF ~cache.redis THEN cache
  ELSE IF answer = "error" THEN [cache EXCEPT !.errors = @ + 1]
  ELSE IF Live(key) THEN [cache EXCEPT !.hits = @ + 1]
  ELSE [cache EXCEPT !.misses = @ + 1]
\* CacheService.set(key, value, ttl): `ttl or settings.CACHE_TTL`, json.dumps,
\* SETEX; what it returns, and what it leaves behind
cache_set_result(answer) == cache.redis /\ answer = "ok"
cache_after_set(key, value, ttl, answer) ==
  IF ~cache.redis THEN cache
  ELSE IF answer = "error" THEN [cache EXCEPT !.errors = @ + 1]
  ELSE [cache EXCEPT !.store[key] =
          [json |-> value,
           expires |-> clock + (IF ttl # 0 THEN ttl ELSE CACHE_TTL)]]
\* `if cached:` in generate
Truthy(v) == v # NoValue /\ v.json # ""

\* The except branch of generate, entered with the call record g.
on_exception(g, st) ==
  LET st1 == [st EXCEPT !.errors = @ + 1]
      failed == [g EXCEPT !.outcome = IF @ = "none" THEN "failed" ELSE @]
  IN IF ~AttrOk("id")
     THEN \* the f-string of logger.error raises AttributeError inside the handler
          [g |-> [failed EXCEPT
                    !.pc = IF retry_wraps_body /\ g.reserved < STOP_AFTER_ATTEMPT
                           THEN "backoff" ELSE "raised",
                    !.error = "AttributeError"],
           stats |-> st1, lb |-> <<"none">>]
     ELSE IF ~g.stream
     THEN [g |-> [failed EXCEPT
                    !.pc = IF retry_wraps_body /\ g.reserved < STOP_AFTER_ATTEMPT
                           THEN "backoff" ELSE "raised",
                    !.error = "upstream"],
           stats |-> st1, lb |-> <<"mark_unhealthy", g.instance>>]
     ELSE [g |-> [failed EXCEPT !.pc = "yield_error",
                                !.delivered = Append(@, "Error")],
           stats |-> st1, lb |-> <<"mark_unhealthy", g.instance>>]

\* The non-streaming branch once the POST has answered 200 with a JSON body.
on_response(g, st, text, tok) ==
  IF ~AttrOk("id")
  THEN on_exception([g EXCEPT !.outcome = "completed"], st)
  ELSE [g |-> [g EXCEPT !.pc = "yield_final", !.outcome = "completed",
                        !.updates = Append(@, TRUE), !.delivered = <<text>>],
        stats |-> [st EXCEPT !.total_tokens = @ + tok],
        lb |-> <<"update_metrics", g.instance, TRUE>>]

\* The streaming branch on a frame with done = true.
on_done(g, st, tok) ==
  IF ~AttrOk("id")
  THEN on_exception([g EXCEPT !.outcome = "completed"], st)
  ELSE [g |-> [g EXCEPT !.pc = "done", !.outcome = "completed",
                        !.updates = Append(@, TRUE)],
        stats |-> [st EXCEPT !.total_tokens = @ + tok],
        lb |-> <<"update_metrics", g.instance, TRUE>>]

StreakAfter(old, new) ==
  IF new.outcome = old.outcome \/ new.instance = NoId THEN fail_streak
  ELSE IF new.outcome = "failed"
       THEN [fail_streak EXCEPT ![new.instance] = @ + 1]
       ELSE IF new.outcome = "completed"
            THEN [fail_streak EXCEPT ![new.instance] = 0]
            ELSE fail_streak

ApplyLB(op) ==
  CASE op[1] = "update_metrics" ->
         /\ \E rt \in ResponseTimes, tok \in TokenCounts :
              update_metrics(op[2], op[3], rt, tok)
         /\ UNCHANGED health_event
    [] op[1] = "mark_unhealthy" ->
         /\ mark_unhealthy(op[2])
         /\ HealthEventAfter(op[2], "mark_unhealthy")
    [] OTHER -> UNCHANGED <<instances, health_event>>

\* A step of call s that leaves it as r.g and does not select a backend.
Step(s, r, cache2) ==
  /\ gen' = [gen EXCEPT ![s] = r.g]
  /\ stats' = r.stats
  /\ ApplyLB(r.lb)
  /\ cache' = cache2
  /\ fail_streak' = StreakAfter(gen[s], r.g)
  /\ UNCHANGED <<strategy, instance_list, request_distribution, current_index,
                 total_requests, probing, last_probe, chat, rate_limits,
                 clock, seen, db>>
  /\ Track(NoId)

\* `instance = await self.load_balancer.get_instance()`: an exception of
\* get_instance is raised before the try and leaves the generator.
select_shared(s, g, res) ==
  IF \E t \in Slots \ {s} : gen[t].pc = "upstream" /\ ~gen[t].stream
                            /\ gen[t].cache /\ g.cache /\ ~g.stream
                            /\ cache_key(gen[t]) = cache_key(g)
  THEN /\ res = (CHOOSE i \in Ids : \E t \in Slots \ {s} :
                   gen[t].pc = "upstream" /\ gen[t].instance = i)
       /\ UNCHANGED lbvars
       /\ gen' = [gen EXCEPT ![s] = [g EXCEPT !.pc = "upstream", !.instance = res]]
  ELSE /\ get_instance(res)
       /\ gen' = [gen EXCEPT ![s] =
            IF res \in Ids
            THEN [g EXCEPT !.pc = "upstream", !.instance = res, !.reserved = @ + 1]
            ELSE [g EXCEPT !.pc = "raised", !.error = res]]
select(s, g, res) ==
  /\ get_instance(res)
  /\ gen' = [gen EXCEPT ![s] =
       IF res \in Ids
       THEN [g EXCEPT !.pc = "upstream", !.instance = res, !.reserved = @ + 1]
       ELSE [g EXCEPT !.pc = "raised", !.error = res]]

Dispatch(s, g, st, cache2) ==
  /\ \E res \in Ids \cup GetInstanceErrors :
       /\ select(s, g, res)
       /\ Track(res)
  /\ stats' = st
  /\ cache' = cache2
  /\ UNCHANGED <<probing, last_probe, health_event, fail_streak, chat,
                 rate_limits, clock, seen, db>>

\* The body of generate from its first line to its first suspension.
generate_caching_streams(s, g) ==
  LET st1 == [stats EXCEPT !.total_requests = @ + 1] IN
  IF g.cache /\ cache.redis
  THEN Step(s, [g |-> [g EXCEPT !.pc = "cache_get"], stats |-> st1,
                lb |-> <<"none">>], cache)
  ELSE Dispatch(s, g, st1, cache)
generate(s, g) ==
  LET st1 == [stats EXCEPT !.total_requests = @ + 1] IN
  IF g.cache /\ ~g.stream /\ cache.redis
  THEN Step(s, [g |-> [g EXCEPT !.pc = "cache_get"], stats |-> st1,
                lb |-> <<"none">>], cache)
  ELSE Dispatch(s, g, st1, cache)

FreeSlots == {s \in Slots : gen[s].pc \in Finished \cup {"idle"}}
GenStart(limit, streams, caches) ==
  \E s \in FreeSlots, stream \in streams, use_cache \in caches, prompt \in Prompts :
    /\ \A t \in FreeSlots : s <= t
    /\ stats.total_requests < limit
    /\ generate(s, [IdleGen EXCEPT !.stream = stream, !.cache = use_cache,
                                   !.prompt = prompt])

Generate == GenStart(MaxCalls, {FALSE}, BOOLEAN)
GenerateStream == GenStart(MaxStreams, {TRUE}, BOOLEAN)

\* CacheService.get has answered
GenCacheResult ==
  \E s \in Slots, answer \in {"ok", "error"} :
    /\ gen[s].pc = "cache_get"
    /\ LET g == gen[s]
           v == cache_get_value(cache_key(g), answer)
           c2 == cache_after_get(cache_key(g), answer)
       IN IF Truthy(v)
          THEN Step(s, [g |-> [g EXCEPT !.pc = "yield_cached",
                                        !.delivered = <<v.json>>],
                        stats |-> [stats EXCEPT !.cache_hits = @ + 1],
                        lb |-> <<"none">>], c2)
          ELSE Dispatch(s, g, stats, c2)

\* http_client.post has answered or raised; raise_for_status; response.json()
PostResults == {"ok", "bad_status", "error", "bad_body"}
GenPostResponse ==
  \E s \in Slots, result \in PostResults, text \in Texts, tok \in TokenCounts,
     answer \in {"ok", "error"} :
    /\ gen[s].pc = "upstream" /\ ~gen[s].stream
    /\ LET g == gen[s]
           r == IF result = "ok" THEN on_response(g, stats, text, tok)
                ELSE on_exception(g, stats)
       IN Step(s, r, IF r.g.pc = "yield_final" /\ g.cache
                     THEN cache_after_set(cache_key(g), text, CACHE_TTL, answer)
                     ELSE cache)

\* http_client.stream has answered or raised; raise_for_status
GenStreamOpen ==
  \E s \in Slots, result \in {"ok", "bad_status", "error"} :
    /\ gen[s].pc = "upstream" /\ gen[s].stream
    /\ LET g == gen[s]
       IN Step(s, IF result = "ok"
                  THEN [g |-> [g EXCEPT !.pc = "streaming"], stats |-> stats,
                        lb |-> <<"none">>]
                  ELSE on_exception(g, stats), cache)

\* One line of response.aiter_lines().  chunk: {"response": c};  final:
\* {"response": "", "done": true};  done: {"done": true};  garbage: not JSON;
\* scalar: JSON that is no object, on which `"response" in data` raises.
GenStreamLine ==
  \E s \in Slots, kind \in {"chunk", "final", "done", "garbage", "scalar"},
     tok \in TokenCounts :
    /\ gen[s].pc = "streaming"
    /\ kind \in {"chunk", "final"} => Len(gen[s].sent) < MaxFrames
    /\ LET g == gen[s]
           c == StreamText[Len(g.sent) + 1]
       IN Step(s,
            CASE kind = "chunk" ->
                   [g |-> [g EXCEPT !.pc = "yielded", !.sent = Append(@, c),
                                    !.delivered = Append(@, c)],
                    stats |-> stats, lb |-> <<"none">>]
              [] kind = "final" ->
                   [g |-> [g EXCEPT !.pc = "yielded", !.sent = Append(@, ""),
                                    !.delivered = Append(@, ""),
                                    !.pending_done = TRUE],
                    stats |-> stats, lb |-> <<"none">>]
              [] kind = "done" -> on_done(g, stats, tok)
              [] kind = "garbage" -> [g |-> g, stats |-> stats, lb |-> <<"none">>]
              [] OTHER -> on_exception(g, stats),
            cache)

\* aiter_lines() is exhausted although no frame said done: the loop and the
\* generator end
GenStreamEnd ==
  \E s \in Slots :
    /\ gen[s].pc = "streaming"
    /\ Step(s, [g |-> [gen[s] EXCEPT !.pc = "done", !.outcome = "no_done"],
                stats |-> stats, lb |-> <<"none">>], cache)

\* the connection breaks while the stream is read
GenStreamError ==
  \E s \in Slots :
    /\ gen[s].pc = "streaming"
    /\ Step(s, on_exception(gen[s], stats), cache)

\* the consumer asks for the next item
GenResume ==
  \E s \in Slots, tok \in TokenCounts :
    /\ gen[s].pc \in AtYield \cup {"backoff"}
    /\ LET g == gen[s]
       IN IF g.pc = "backoff"
          THEN generate(s, [g EXCEPT !.outcome = "none", !.error = "none"])
          ELSE Step(s,
                 IF g.pc = "yielded" /\ g.pending_done THEN on_done(g, stats, tok)
                 ELSE [g |-> [g EXCEPT !.pc = IF g.pc = "yielded" THEN "streaming"
                                              ELSE "done"],
                       stats |-> stats, lb |-> <<"none">>],
                 cache)

\* the consumer goes away: aclose() throws GeneratorExit in at a yield, task
\* cancellation throws CancelledError in at an await; `except Exception`
\* catches neither
GenClose ==
  \E s \in Slots :
    /\ gen[s].pc \in AtYield \cup Awaiting
    /\ Step(s, [g |-> [gen[s] EXCEPT !.pc = IF gen[s].pc \in AtYield THEN "closed"
                                            ELSE "cancelled"],
                stats |-> stats, lb |-> <<"none">>], cache)

\* LLMService after initialize() registered two backends, serving
\* non-streaming generate calls.
TwoBackends == <<InstanceMetrics("ollama-1", 1), InstanceMetrics("ollama-2", 1)>>
InitGenerate ==
  /\ InitLB(TwoBackends, {"round_robin"})
  /\ InitObservers /\ InitGen /\ InitCache(BOOLEAN) /\ InitChat /\ InitMiddleware /\ InitDatabase
NextGenerate ==
  \/ Generate
  \/ GenCacheResult
  \/ GenPostResponse
  \/ GenResume
  \/ GenClose
SpecGenerate == InitGenerate /\ [][NextGenerate]_vars

\* The service in front of a connected cache that holds one completed
\* response, which set() stored as json.dumps of the response text of an
\* earlier non-streaming call; that text is any of Texts.
InitCacheHolding ==
  cache \in [redis : {TRUE},
             store : {[k \in Prompts |-> IF k = "p1"
                                         THEN [json |-> t, expires |-> CACHE_TTL]
                                         ELSE NoValue] : t \in Texts},
             hits : {0}, misses : {0}, errors : {0}]
InitHit ==
  /\ InitLB(TwoBackends, {"round_robin"})
  /\ InitObservers /\ InitGen /\ InitCacheHolding /\ InitChat /\ InitMiddleware /\ InitDatabase
SpecHit == InitHit /\ [][NextGenerate]_vars

\* The same service serving streaming generate calls.
NextStream ==
  \/ GenerateStream
  \/ GenStreamOpen
  \/ GenStreamLine
  \/ GenStreamEnd
  \/ GenStreamError
  \/ GenResume
  \/ GenClose
SpecStream == InitGenerate /\ [][NextStream]_vars

\* A client that sends its generate calls one after the other, while the
\* prober runs.
GenerateSequential ==
  /\ \A s \in Slots : gen[s].pc \in Finished \cup {"idle"}
  /\ GenStart(MaxFailing, {FALSE}, {FALSE})
NextFailover ==
  \/ GenerateSequential
  \/ GenPostResponse
  \/ PerformHealthChecks
  \/ CheckInstanceHealth
SpecFailover == InitGenerate /\ [][NextFailover]_vars

\* One client sending streaming and non-streaming calls, with and without
\* cache, one after the other.
GenerateAny ==
  /\ \A s \in Slots : gen[s].pc \in Finished \cup {"idle"}
  /\ GenStart(MaxCalls, BOOLEAN, BOOLEAN)
NextBypass ==
  \/ GenerateAny
  \/ GenCacheResult
  \/ GenPostResponse
  \/ GenStreamOpen
  \/ GenStreamLine
  \/ GenStreamEnd
  \/ GenStreamError
  \/ GenResume
  \/ GenClose
SpecBypass == InitGenerate /\ [][NextBypass]_vars

\* ------------------------------------- routes/chat.py: POST /stream
\* event_generator wraps generate(stream=True): one chunk frame per item the
\* generator has yielded, a done frame when the generator ends, an error
\* frame when it raises.  Between the end (or the exception) of generate and
\* the terminal frame there is no suspension point, so the frames produced
\* so far are a function of the call record g.  A consumer that went away
\* (closed, cancelled) gets no further frame.
ChunkFrames(texts) == [i \in 1..Len(texts) |-> [kind |-> "chunk", text |-> texts[i]]]
event_generator(g) ==
  CASE g.pc = "done"   -> Append(ChunkFrames(g.delivered), [kind |-> "done"])
    [] g.pc = "raised" -> Append(ChunkFrames(g.delivered),
                                 [kind |-> "error", text |-> g.error])
    [] OTHER           -> ChunkFrames(g.delivered)

\* ------------------------------------------------- main.py: POST /api/chat
\* One record of `chat` per request: pc "upstream" while the handler awaits
\* client.post, "streaming" while the StreamingResponse is being produced.
\* attempts counts the upstream requests sent, failed those that failed.
Responded(c, status, body) ==
  [c EXCEPT !.pc = "responded", !.status = status, !.body = body]

\* from request.json() to the first await on Ollama
chat_request(c, body_ok, message, stream) ==
  IF ~body_ok \/ message = ""
  THEN \* the HTTPException(400) is raised inside the outer try, whose
       \* `except Exception` turns it into a 500 like any other error
       Responded(c, 500, IF body_ok THEN "400: Message is required" ELSE "detail")
  ELSE IF stream
  THEN [c EXCEPT !.pc = "streaming", !.stream = TRUE, !.status = 200,
                 !.body = "event-stream"]
  ELSE [c EXCEPT !.pc = "upstream", !.attempts = @ + 1]

\* client.post has answered or raised; raise_for_status; response.json()
chat_upstream_retrying(c, result) ==
  IF result = "ok" THEN Responded(c, 200, "answer")
  ELSE IF c.failed + 1 < STOP_AFTER_ATTEMPT
       THEN [c EXCEPT !.failed = @ + 1, !.attempts = @ + 1]
       ELSE Responded([c EXCEPT !.failed = @ + 1], 200, "fallback")
chat_upstream(c, result) ==
  IF result = "ok" THEN Responded(c, 200, "answer")
  ELSE Responded([c EXCEPT !.failed = @ + 1], 200, "fallback")

ChatStep(i, c2) ==
  /\ chat' = [chat EXCEPT ![i] = c2]
  /\ UNCHANGED <<strategy, instances, instance_list, request_distribution,
                 current_index, total_requests, probing, last_return, rr_count,
                 rr_cursor, last_probe, health_event, gen, stats, fail_streak,
                 cache, rate_limits, clock, seen, db>>

ChatRequest ==
  \E i \in 1..MaxChats, body_ok \in BOOLEAN, message \in {"", "hi"},
     stream \in BOOLEAN :
    /\ chat[i].pc = "idle"
    /\ ChatStep(i, chat_request(chat[i], body_ok, message, stream))

ChatUpstream ==
  \E i \in 1..MaxChats, result \in PostResults :
    /\ chat[i].pc = "upstream"
    /\ ChatStep(i, chat_upstream(chat[i], result))

\* the body of the StreamingResponse: every upstream attempt of generate()
\* happens after the handler has returned
ChatStream ==
  \E i \in 1..MaxChats, result \in {"ok", "error"} :
    /\ chat[i].pc = "streaming"
    /\ ChatStep(i, [chat[i] EXCEPT !.pc = "responded", !.attempts = @ + 1,
                                   !.failed = IF result = "ok" THEN @ ELSE @ + 1])

InitChatOnly ==
  /\ InitLB(<<>>, {"round_robin"})
  /\ InitObservers /\ InitGen /\ InitCache({FALSE}) /\ InitChat /\ InitMiddleware /\ InitDatabase
NextChat ==
  \/ ChatRequest
  \/ ChatUpstream
  \/ ChatStream
SpecChat == InitChatOnly /\ [][NextChat]_vars

\* ------------------------------------------------------- CacheService
\* The service driven directly: initialize(), set(), get(), and time passing
\* on the server.  `seen` remembers the last call and the last set.
TTLs == {0, 1}
CacheKeys == {"p1"}
Written == IF "written" \in DOMAIN seen THEN seen.written ELSE NoValue
CacheCounts == cache.hits + cache.misses + cache.errors

CacheStep(cache2, seen2) ==
  /\ cache' = cache2
  /\ seen' = seen2
  /\ UNCHANGED <<strategy, instances, instance_list, request_distribution,
                 current_index, total_requests, probing, last_return, rr_count,
                 rr_cursor, last_probe, health_event, gen, stats, fail_streak,
                 chat, rate_limits, clock, db>>

\* CacheService.initialize: from_url and ping succeed, or raise
cache_after_initialize(answer) == [cache EXCEPT !.redis = (answer = "ok")]
CacheInitialize ==
  \E answer \in {"ok", "error"} :
    CacheStep(cache_after_initialize(answer),
              [op |-> "initialize", written |-> Written])

CacheSet ==
  \E key \in CacheKeys, value \in Texts, ttl \in TTLs, answer \in {"ok", "error"} :
    /\ CacheCounts < MaxCacheCounts
    /\ CacheStep(cache_after_set(key, value, ttl, answer),
                 [op |-> "set", key |-> key, at |-> clock,
                  result |-> cache_set_result(answer),
                  connected |-> cache.redis, failed |-> (answer = "error"),
                  errors_before |-> cache.errors,
                  written |-> [key |-> key, value |-> value, ttl |-> ttl,
                               at |-> clock]])

CacheGet ==
  \E key \in CacheKeys, answer \in {"ok", "error"} :
    /\ CacheCounts < MaxCacheCounts
    /\ CacheStep(cache_after_get(key, answer),
                 [op |-> "get", key |-> key, at |-> clock,
                  result |-> cache_get_value(key, answer),
                  connected |-> cache.redis, failed |-> (answer = "error"),
                  errors_before |-> cache.errors,
                  written |-> Written])

Tick ==
  /\ clock < MaxCacheClock
  /\ clock' = clock + 1
  /\ UNCHANGED <<strategy, instances, instance_list, request_distribution,
                 current_index, total_requests, probing, last_return, rr_count,
                 rr_cursor, last_probe, health_event, gen, stats, fail_streak,
                 cache, chat, rate_limits, seen, db>>

InitCacheOnly ==
  /\ InitLB(<<>>, {"round_robin"})
  /\ InitObservers /\ InitGen /\ InitCache({FALSE}) /\ InitChat /\ InitMiddleware /\ InitDatabase
NextCache ==
  \/ CacheInitialize
  \/ CacheSet
  \/ CacheGet
  \/ Tick
SpecCache == InitCacheOnly /\ [][NextCache]_vars

\* ------------------------------------------------ RateLimitMiddleware
\* The classes of request paths _get_endpoint_limit tells apart.
EndpointClasses == {"chat", "finetune", "pull", "other"}
get_endpoint_limit(class) ==
  CASE class = "chat"     -> RATE_LIMIT_PER_MINUTE
    [] class = "finetune" -> FINETUNE_LIMIT
    [] class = "pull"     -> PULL_LIMIT
    [] OTHER              -> 0

\* the requests each client was admitted with, per class, since its window began
NoCounts == [c \in Clients |-> [k \in EndpointClasses |-> 0]]
WindowCounts == IF "counts" \in DOMAIN seen THEN seen.counts ELSE NoCounts

Counted ==
  LET n(c) == IF rate_limits[c] = NoWindow THEN 0 ELSE rate_limits[c][1]
  IN n("10.0.0.1") + n("10.0.0.2")

\* `if requests >= endpoint_limit`
limit_exceeded_late(requests, endpoint_limit) == requests > endpoint_limit
limit_exceeded(requests, endpoint_limit) == requests >= endpoint_limit

\* dispatch up to `await call_next(request)`: no suspension point in between
dispatch(client_ip, class) ==
  LET endpoint_limit == get_endpoint_limit(class)
      entry == IF rate_limits[client_ip] = NoWindow THEN <<0, clock>>
               ELSE rate_limits[client_ip]
      reset == clock - entry[2] > WINDOW
      requests == IF reset THEN 0 ELSE entry[1]
      window_start == IF reset THEN clock ELSE entry[2]
      limited == endpoint_limit # 0 /\ limit_exceeded(requests, endpoint_limit)
      counts == IF endpoint_limit # 0 /\ reset THEN NoCounts[client_ip]
                ELSE WindowCounts[client_ip]
  IN /\ (endpoint_limit # 0 /\ ~limited) => Counted < MaxWindowRequests
     /\ rate_limits' =
          IF endpoint_limit # 0 /\ ~limited
          THEN [rate_limits EXCEPT ![client_ip] = <<requests + 1, window_start>>]
          ELSE rate_limits
     /\ seen' = [op |-> "dispatch", client |-> client_ip, class |-> class,
                 status |-> IF limited THEN "429" ELSE "call_next",
                 earlier |-> counts[class],
                 reset |-> (endpoint_limit # 0 /\ reset),
                 elapsed |-> clock - entry[2],
                 counts |-> [WindowCounts EXCEPT ![client_ip] =
                               IF limited \/ endpoint_limit = 0 THEN counts
                               ELSE [counts EXCEPT ![class] = @ + 1]]]

Dispatch429 ==
  \E client_ip \in Clients, class \in EndpointClasses :
    /\ dispatch(client_ip, class)
    /\ seen'.status = "429"
    /\ UNCHANGED <<strategy, instances, instance_list, request_distribution,
                   current_index, total_requests, probing, last_return, rr_count,
                   rr_cursor, last_probe, health_event, gen, stats, fail_streak,
                   cache, chat, clock, db>>

DispatchCallNext ==
  \E client_ip \in Clients, class \in EndpointClasses :
    /\ dispatch(client_ip, class)
    /\ seen'.status = "call_next"
    /\ UNCHANGED <<strategy, instances, instance_list, request_distribution,
                   current_index, total_requests, probing, last_return, rr_count,
                   rr_cursor, last_probe, health_event, gen, stats, fail_streak,
                   cache, chat, clock, db>>

\* time.time() moves on between requests
TimePasses ==
  \E d \in {WINDOW \div 2, WINDOW \div 2 + 1} :
    /\ clock + d <= MaxRateClock
    /\ clock' = clock + d
    /\ UNCHANGED <<strategy, instances, instance_list, request_distribution,
                   current_index, total_requests, probing, last_return, rr_count,
                   rr_cursor, last_probe, health_event, gen, stats, fail_streak,
                   cache, chat, rate_limits, seen, db>>

InitRate ==
  /\ InitLB(<<>>, {"round_robin"})
  /\ InitObservers /\ InitGen /\ InitCache({FALSE}) /\ InitChat /\ InitMiddleware /\ InitDatabase
NextRate ==
  \/ DispatchCallNext
  \/ Dispatch429
  \/ TimePasses
SpecRate == InitRate /\ [][NextRate]_vars

\* ------------------------------------- routes/chat.py: POST / (chat)
\* The handler up to its first suspension: get_conversation or
\* create_conversation, add_message, then `async for ... in generate`.
\* conversation_id 0 stands for a request that names no conversation.
\* The HTTPException(404) is raised inside the try, whose `except Exception`
\* answers 500 with str(e) as detail.
\* crud.get_conversation: the row, filtered by owner `if user_id:`
get_conversation(conversations, conversation_id, user_id) ==
  IF conversations[conversation_id] = NoRow THEN NoRow
  ELSE IF user_id # 0 /\ conversations[conversation_id] # user_id THEN NoRow
  ELSE conversation_id
route_chat(c, conversation_id, user_id) ==
  IF conversation_id # 0
     /\ get_conversation(db.conversations, conversation_id, user_id) = NoRow
  THEN Responded(c, 500, "404: Conversation not found")
  ELSE [c EXCEPT !.pc = "generate"]
FreeConvIds(conversations) == {n \in ConvIds : conversations[n] = NoRow}
create_conversation(conversations, user_id) ==
  [conversations EXCEPT
     ![CHOOSE n \in FreeConvIds(conversations) :
         \A m \in FreeConvIds(conversations) : n <= m] = user_id]

RouteStep(i, c2, db2) ==
  /\ chat' = [chat EXCEPT ![i] = c2]
  /\ db' = db2
  /\ UNCHANGED <<strategy, instances, instance_list, request_distribution,
                 current_index, total_requests, probing, last_return, rr_count,
                 rr_cursor, last_probe, health_event, gen, stats, fail_streak,
                 cache, rate_limits, clock, seen>>

RouteChat ==
  \E i \in 1..MaxChats, conversation_id \in {0} \cup ConvIds, user_id \in UserIds :
    /\ chat[i].pc = "idle"
    /\ conversation_id = 0 => FreeConvIds(db.conversations) # {}
    /\ RouteStep(i, route_chat(chat[i], conversation_id, user_id),
                 IF conversation_id = 0
                 THEN [db EXCEPT !.conversations = create_conversation(@, user_id)]
                 ELSE db)

\* llm_service.generate has yielded its answer, or raised
RouteChatAnswer ==
  \E i \in 1..MaxChats, result \in {"ok", "raised"} :
    /\ chat[i].pc = "generate"
    /\ RouteStep(i, IF result = "ok" THEN Responded(chat[i], 200, "answer")
                    ELSE Responded(chat[i], 500, "detail"), db)

\* Both chat handlers serving requests.
NextRoutes ==
  \/ ChatRequest
  \/ ChatUpstream
  \/ ChatStream
  \/ RouteChat
  \/ RouteChatAnswer
SpecRoutes == InitChatOnly /\ [][NextRoutes]_vars

\* ------------------------------------------------------ the auth gates
\* A bearer value is the configured API key, a JWT, or anything else.  Of a
\* JWT the model keeps whether its signature verifies under SECRET_KEY,
\* whether its exp has passed, and its sub claim ("missing" when absent).
Subjects == {"missing", "abc", "1", "2"}
Bearers ==
  {[kind |-> "api_key"], [kind |-> "opaque"]} \cup
  [kind : {"jwt"}, signed : BOOLEAN, expired : BOOLEAN, sub : Subjects]

\* jwt.decode: the payload, or JWTError
jwt_decode(b) ==
  IF b.kind = "jwt" /\ b.signed /\ ~b.expired THEN [sub |-> b.sub]
  ELSE [error |-> "JWTError"]
\* int(user_id): ValueError on text that is no number
IsNumeric(text) == text \in {"1", "2"}
int(text) == CASE text = "1" -> 1 [] text = "2" -> 2

Accepted(user) == [status |-> 200, user |-> user]
Refused(status) == [status |-> status, user |-> "none"]

\* deps.py
get_current_user(b) ==
  IF b.kind = "api_key" THEN Accepted("api_key")
  ELSE LET payload == jwt_decode(b) IN
       IF "error" \in DOMAIN payload THEN Refused(401)
       ELSE IF payload.sub = "missing" THEN Refused(401)
       ELSE IF ~IsNumeric(payload.sub) THEN Refused(500)
       ELSE IF db.users[int(payload.sub)] = "absent" THEN Refused(401)
       ELSE Accepted(payload.sub)
\* main.py, the gate of the mounted /api/chat
verify_auth(b) ==
  IF b.kind # "api_key" THEN Refused(401) ELSE Accepted("api_user")

Gates == {"get_current_user", "verify_auth"}
ApiStep(db2, seen2) ==
  /\ db' = db2
  /\ seen' = seen2
  /\ UNCHANGED <<strategy, instances, instance_list, request_distribution,
                 current_index, total_requests, probing, last_return, rr_count,
                 rr_cursor, last_probe, health_event, gen, stats, fail_streak,
                 cache, chat, rate_limits, clock>>

Authenticate ==
  \E b \in Bearers, gate \in Gates :
    /\ ApiStep(db, [op |-> "auth", gate |-> gate, bearer |-> b,
                    users |-> db.users,
                    answer |-> IF gate = "verify_auth" THEN verify_auth(b)
                               ELSE get_current_user(b)])

\* crud.create_user, crud.update_user(..., {"is_active": ...})
create_user(users) ==
  [users EXCEPT ![CHOOSE u \in UserIds : users[u] = "absent" /\
                     \A v \in UserIds : users[v] = "absent" => u <= v] = "active"]
update_user(users, user_id, is_active) ==
  IF users[user_id] = "absent" THEN users
  ELSE [users EXCEPT ![user_id] = IF is_active THEN "active" ELSE "inactive"]
CreateUser ==
  /\ \E u \in UserIds : db.users[u] = "absent"
  /\ ApiStep([db EXCEPT !.users = create_user(@)], seen)
UpdateUser ==
  \E user_id \in UserIds, is_active \in BOOLEAN :
      /\ ApiStep([db EXCEPT !.users = update_user(@, user_id, is_active)], seen)

\* ----------------------------------------------------- FinetuneService
\* A row of finetune_jobs with the position of its background task:
\* scheduled (created by asyncio.create_task, not yet run), working
\* (suspended at an await of _run_finetune_job), finished.
NewJob(user_id) == [status |-> "pending", task |-> "scheduled", user_id |-> user_id]
\* FinetuneJob.from_orm(job): a copy of the row as it is now
from_orm(jobs, id) == [id |-> id, status |-> jobs[id].status]

\* _run_finetune_job from its first line to its first suspension: the row is
\* set to running; a failure before any suspension sets it to failed
run_finetune_job(jobs, job_id, outcome) ==
  [jobs EXCEPT ![job_id] =
     IF outcome = "suspends" THEN [@ EXCEPT !.status = "running", !.task = "working"]
     ELSE [@ EXCEPT !.status = "failed", !.task = "finished"]]

\* create_finetune_job has no await: the row is inserted, the task is
\* scheduled, and the snapshot is built before the event loop runs the task
create_finetune_job_yielding(jobs, user_id) ==
  LET id == Len(jobs) + 1
      inserted == run_finetune_job(Append(jobs, NewJob(user_id)), id, "suspends")
  IN [jobs |-> inserted, returned |-> from_orm(inserted, id)]
create_finetune_job(jobs, user_id) ==
  LET id == Len(jobs) + 1
      inserted == Append(jobs, NewJob(user_id))
  IN [jobs |-> inserted, returned |-> from_orm(inserted, id)]

CreateJob(callers) ==
  \E user_id \in callers :
    /\ Len(db.jobs) < MaxJobs
    /\ LET r == create_finetune_job(db.jobs, user_id)
       IN ApiStep([db EXCEPT !.jobs = r.jobs],
                  [op |-> "create_finetune_job", returned |-> r.returned,
                   others |-> {db.jobs[j].status : j \in DOMAIN db.jobs}])
CreateFinetuneJob == CreateJob({1})

RunFinetuneJob ==
  \E job_id \in DOMAIN db.jobs, outcome \in {"suspends", "fails"} :
    /\ db.jobs[job_id].task = "scheduled"
    /\ ApiStep([db EXCEPT !.jobs = run_finetune_job(@, job_id, outcome)], seen)

\* the training has ended, or an await of the task has raised: the row is
\* set to completed or failed, whatever its status is by then
FinishFinetuneJob ==
  \E job_id \in DOMAIN db.jobs, status \in {"completed", "failed"} :
    /\ db.jobs[job_id].task = "working"
    /\ ApiStep([db EXCEPT !.jobs[job_id].status = status,
                          !.jobs[job_id].task = "finished"], seen)

\* cancel_job: the row is set to cancelled; the task is left running
cancel_job(jobs, job_id, user_id) ==
  IF job_id \notin DOMAIN jobs THEN [jobs |-> jobs, result |-> FALSE]
  ELSE IF user_id # 0 /\ jobs[job_id].user_id # user_id
       THEN [jobs |-> jobs, result |-> FALSE]
       ELSE [jobs |-> [jobs EXCEPT ![job_id].status = "cancelled"],
             result |-> TRUE]
CancelJob ==
  \E job_id \in 1..MaxJobs, user_id \in CallerIds :
    LET r == cancel_job(db.jobs, job_id, user_id)
    IN ApiStep([db EXCEPT !.jobs = r.jobs],
               [op |-> "cancel_job", job_id |-> job_id, user_id |-> user_id,
                result |-> r.result,
                owner |-> IF job_id \in DOMAIN db.jobs
                          THEN db.jobs[job_id].user_id ELSE NoRow])

\* a chat request of user_id that names no conversation creates one; a chat
\* request that names one looks it up
CreateConversation ==
  \E user_id \in UserIds :
    /\ FreeConvIds(db.conversations) # {}
    /\ ApiStep([db EXCEPT !.conversations = create_conversation(@, user_id)], seen)
GetConversation ==
  \E conversation_id \in ConvIds, user_id \in CallerIds :
    ApiStep(db, [op |-> "get_conversation", conversation_id |-> conversation_id,
                 user_id |-> user_id,
                 result |-> get_conversation(db.conversations, conversation_id,
                                             user_id),
                 owner |-> db.conversations[conversation_id]])

\* Users and the API key's identity working on conversations and fine-tune
\* jobs of their own and of each other.
CreateFinetuneJobAny == CreateJob(UserIds)
NextOwner ==
  \/ CreateConversation
  \/ GetConversation
  \/ CreateFinetuneJobAny
  \/ RunFinetuneJob
  \/ FinishFinetuneJob
  \/ CancelJob
SpecOwner == InitChatOnly /\ [][NextOwner]_vars

\* The API over its database: users come and go, requests pass the auth
\* gates, fine-tune jobs are created and run.
NextApi ==
  \/ Authenticate
  \/ CreateUser
  \/ UpdateUser
  \/ CreateFinetuneJob
  \/ RunFinetuneJob
  \/ FinishFinetuneJob
SpecApi == InitChatOnly /\ [][NextApi]_vars

\* ------------------------------------------------ LoadBalancer.initialize
\* A setting is a str, modelled as the sequence of its characters; a URL is
\* a str too.  OLLAMA_INSTANCES is declared `str` and read from the
\* environment as a str.
Chars == {"u", "v", ","}
OllamaSettings == UNION {[1..n -> Chars] : n \in 0..Cardinality(Ids)}
OLLAMA_BASE_URL == <<"b">>
\* f"ollama-{i+1}"
OllamaIds == <<"ollama-1", "ollama-2">>

\* Settings.get_ollama_instances: split on commas, drop the empty pieces
RECURSIVE split(_, _, _)
split(text, piece, pieces) ==
  IF text = <<>> THEN Append(pieces, piece)
  ELSE IF Head(text) = ","
       THEN split(Tail(text), <<>>, Append(pieces, piece))
       ELSE split(Tail(text), Append(piece, Head(text)), pieces)
get_ollama_instances(setting) ==
  IF setting = <<>> THEN <<OLLAMA_BASE_URL>>
  ELSE SelectSeq(split(setting, <<>>, <<>>), LAMBDA x : x # <<>>)

\* `instances = settings.OLLAMA_INSTANCES`, then `for i, url in
\* enumerate(instances)`: iterating a str yields its characters
initialize_urls(setting) ==
  IF setting # <<>> THEN [i \in 1..Len(setting) |-> <<setting[i]>>]
  ELSE <<OLLAMA_BASE_URL>>

\* initialize() on the registry as constructed: one add_instance per item
Initialize ==
  \E setting \in OllamaSettings :
    /\ seen = NothingSeen /\ instances = <<>>
    /\ LET urls == initialize_urls(setting)
       IN /\ instances' = [i \in 1..Len(urls) |-> InstanceMetrics(OllamaIds[i], 1)]
          /\ instance_list' = [i \in 1..Len(urls) |-> OllamaIds[i]]
          /\ request_distribution' =
               [id \in {OllamaIds[i] : i \in 1..Len(urls)} |-> 0]
          /\ seen' = [op |-> "initialize", setting |-> setting, urls |-> urls]
    /\ UNCHANGED <<strategy, current_index, total_requests, probing>>
    /\ Track(NoId)
    /\ UNCHANGED <<last_probe, health_event>>
    /\ UNCHANGED <<gen, stats, fail_streak, cache, chat, rate_limits, clock, db>>

\* The balancer is initialized from the setting and then serves requests.
NextInitialize ==
  \/ Initialize
  \/ CallGetInstance
  \/ CallReleaseInstance
SpecInitialize == InitChatOnly /\ [][NextInitialize]_vars

\* ------------------------------- calls that name an id not registered
\* update_metrics, release_instance, mark_healthy, mark_unhealthy or
\* remove_instance called with an id that is not (or no longer) a key of
\* instances, as by a request or probe that outlived its backend.
UnknownIdOps == {"update_metrics", "release_instance", "mark_healthy",
                 "mark_unhealthy", "remove_instance"}
CallUnknownId ==
  \E id \in Ids, op \in UnknownIdOps :
    /\ ~Has(id)
    /\ CASE op = "update_metrics" ->
              /\ \E success \in BOOLEAN, rt \in ResponseTimes, tok \in TokenCounts :
                   update_metrics(id, success, rt, tok)
              /\ UNCHANGED <<instance_list, request_distribution>>
         [] op = "release_instance" ->
              /\ release_instance(id)
              /\ UNCHANGED <<instance_list, request_distribution>>
         [] op = "mark_healthy" ->
              /\ mark_healthy(id)
              /\ UNCHANGED <<instance_list, request_distribution>>
         [] op = "mark_unhealthy" ->
              /\ mark_unhealthy(id)
              /\ UNCHANGED <<instance_list, request_distribution>>
         [] OTHER -> remove_instance(id)
    /\ UNCHANGED <<strategy, current_index, total_requests, probing>>
    /\ Track(NoId)
    /\ UNCHANGED <<last_probe, health_event>>
    /\ seen' = [op |-> op, id |-> id,
                round |-> IF "round" \in DOMAIN seen THEN 1 - seen.round ELSE 0]
    /\ UNCHANGED <<gen, stats, fail_streak, cache, chat, rate_limits, clock, db>>

\* A registry whose backends come and go while calls name them.
NextUnknown ==
  \/ CallAddInstance
  \/ CallRemoveInstance
  \/ CallGetInstance
  \/ CallUnknownId
SpecUnknown == InitChatOnly /\ [][NextUnknown]_vars

\* ======================================================= properties
CalledGetInstance == last_return # NoId
SomeUnhealthy == \E i \in 1..Len(instances) : ~instances[i].is_healthy

\* C6 (as stated): get_instance never returns a backend whose is_healthy is
\* false while some registered backend is healthy, and with a non-empty
\* registry holding no healthy backend it still returns a registered backend
\* instead of an error.
C6_Original ==
  /\ (last_return \in Ids /\ AnyHealthy) => Inst(last_return).is_healthy
  /\ (CalledGetInstance /\ instances # <<>> /\ ~AnyHealthy)
        => last_return \in Registered

\* C6 (amended): get_instance never returns an unhealthy backend while some
\* registered backend is healthy; with a non-empty registry holding no healthy
\* backend it returns a registered backend, except under the weighted strategy
\* when the weights of all backends sum to 0, where it raises ValueError.
C6_HealthyPreferred ==
  /\ (last_return \in Ids /\ AnyHealthy) => Inst(last_return).is_healthy
  /\ (CalledGetInstance /\ instances # <<>> /\ ~AnyHealthy)
        => \/ last_return \in Registered
           \/ /\ last_return = "ValueError"
              /\ strategy = "weighted"
              /\ TotalWeight(instances) = 0
  /\ (last_return = "RuntimeError") => instances = <<>>

C6_Witness ==
  /\ last_return \in Ids
  /\ AnyHealthy
  /\ SomeUnhealthy
  /\ Inst(last_return).is_healthy

\* C9: under round_robin, after N calls of get_instance on an unchanged
\* candidate list of K backends every candidate was selected floor(N/K) or
\* ceil(N/K) times, so two candidates differ by at most 1.
SelectionsSinceChange == SumSeq([i \in 1..Len(CandIds) |-> rr_count[CandIds[i]]])
C9_RoundRobinBalanced ==
  strategy = "round_robin" =>
    LET K == Len(CandIds)
        N == SelectionsSinceChange
    IN \A i \in 1..K :
         rr_count[CandIds[i]] \in {N \div K, (N + K - 1) \div K}

C9_Witness ==
  /\ strategy = "round_robin"
  /\ Len(CandIds) = 2
  /\ SelectionsSinceChange >= 3

\* C10 (as stated): under round_robin the n-th get_instance returns
\* candidates[c mod len(candidates)] for a cursor c that grows by 1 per call
\* and never decreases, also when the candidate list shrinks or grows.
C10_Original ==
  [][(strategy = "round_robin" /\ last_return' \in Ids)
       => last_return' = CandIds[(rr_cursor % Len(CandIds)) + 1]]_vars

\* C10 (amended): under round_robin get_instance returns
\* candidates[current_index] when current_index < len(candidates) and
\* candidates[0] otherwise, and leaves current_index one past the returned
\* position: the cursor is reset on wrap, it is not a monotonic count, and
\* after the list changed length the pick need not be candidates[c mod len].
C10_CursorResets ==
  [][(strategy = "round_robin" /\ last_return' \in Ids)
       => LET p == IF current_index >= Len(CandIds) THEN 1 ELSE current_index + 1
          IN /\ last_return' = CandIds[p]
             /\ current_index' = p]_vars

C10_Witness ==
  /\ strategy = "round_robin"
  /\ last_return \in Ids
  /\ rr_cursor >= 3
  /\ last_return # CandIds[((rr_cursor - 1) % Len(CandIds)) + 1]

\* C8 (as stated): is_healthy is true iff the backend's most recent probe
\* succeeded and error_count < 5 (a backend not probed yet counts as passing).
C8_Original ==
  \A id \in Registered :
    Inst(id).is_healthy <=>
      (last_probe[id] # "fail" /\ Inst(id).error_count < ERROR_THRESHOLD)

\* C8 (amended): is_healthy holds the latest write to it: true after
\* construction and after mark_healthy (a successful probe of a backend seen
\* unhealthy), false after mark_unhealthy (a failed probe, or a direct call)
\* and after a failed update_metrics that brought error_count to 5 or more.
\* Nothing ties the flag to error_count afterwards: a backend can be healthy
\* with error_count >= 5 and unhealthy with error_count < 5.
C8_LatestWriteWins ==
  \A id \in Registered :
    Inst(id).is_healthy <=> health_event[id] \in {"init", "mark_healthy"}

C8_Witness ==
  \E id \in Registered :
    /\ Inst(id).is_healthy
    /\ Inst(id).error_count >= ERROR_THRESHOLD
    /\ last_probe[id] = "ok"
    /\ health_event[id] = "mark_healthy"

\* C1 (as stated): every registered backend's active_connections equals the
\* number of dispatches that reserved it and have not finished.
Outstanding(b) == {s \in Slots : gen[s].instance = b /\ gen[s].pc \notin Finished}
C1_Original ==
  \A b \in Registered : Inst(b).active_connections = Cardinality(Outstanding(b))

\* C2 (as stated): a generate call that reserved a backend has invoked
\* update_metrics exactly once by the time it ends, with success = true when
\* the generation completed and success = false when it failed.
C2_Original ==
  \A s \in Slots :
    (gen[s].pc \in Finished /\ gen[s].reserved >= 1) =>
      /\ Len(gen[s].updates) = 1
      /\ gen[s].outcome = "completed" => gen[s].updates[1]
      /\ gen[s].outcome = "failed" => ~gen[s].updates[1]

\* C3 (as stated): concurrent non-streaming cacheable calls with the same key
\* that all missed the cache make one get_instance reservation between them.
SameKeyInFlight(s, t) ==
  /\ s # t
  /\ gen[s].pc = "upstream" /\ gen[t].pc = "upstream"
  /\ ~gen[s].stream /\ ~gen[t].stream /\ gen[s].cache /\ gen[t].cache
  /\ cache_key(gen[s]) = cache_key(gen[t])
C4_Original ==
  \A s \in Slots :
    (~gen[s].stream /\ gen[s].pc = "raised" /\ gen[s].outcome = "failed")
      => gen[s].reserved = STOP_AFTER_ATTEMPT

C7_Original ==
  ~ /\ last_return \in Ids
    /\ fail_streak[last_return] >= ERROR_THRESHOLD
    /\ health_event[last_return] # "mark_healthy"
    /\ \E other \in Registered \ {last_return} : Inst(other).is_healthy

\* C11 (as stated): under least_connections, right after get_instance has
\* returned S (its active_connections incremented), S.active_connections is at
\* most the active_connections of every other healthy backend.
C11_Original ==
  (strategy = "least_connections" /\ last_return \in Ids) =>
    \A o \in Registered \ {last_return} :
      Inst(o).is_healthy =>
        Inst(last_return).active_connections <= Inst(o).active_connections

\* C11 (amended): right after get_instance has returned S, the value S had
\* when it was chosen, S.active_connections - 1, is at most the
\* active_connections of every candidate (the healthy backends, or all of them
\* when none is healthy); S itself may exceed a tied candidate by 1.
C11_MinimalWhenChosen ==
  (strategy = "least_connections" /\ last_return \in Ids) =>
    /\ \E i \in 1..Len(Candidates) : CandIds[i] = last_return
    /\ \A i \in 1..Len(Candidates) :
         Inst(last_return).active_connections - 1 <= Candidates[i].active_connections

C11_Witness ==
  /\ strategy = "least_connections" /\ last_return \in Ids
  /\ Len(Candidates) = 2
  /\ \E o \in Registered \ {last_return} :
       /\ Inst(o).is_healthy
       /\ Inst(o).active_connections >= 1
       /\ Inst(last_return).active_connections = Inst(o).active_connections + 1

\* C12 (as stated): under least_connections, among the candidates that share
\* the minimum active_connections get_instance returns the one with the lowest
\* total_requests, and among those the one with the smallest id, whatever the
\* registration order.
IdOrder == <<"ollama-1", "ollama-2">>
IdRank(id) == CHOOSE k \in 1..Len(IdOrder) : IdOrder[k] = id
MinActive(cands) ==
  {i \in 1..Len(cands) :
     \A j \in 1..Len(cands) : cands[i].active_connections <= cands[j].active_connections}
C12_Original ==
  [][(strategy = "least_connections" /\ last_return' \in Ids)
       => \E i \in MinActive(Candidates) :
            /\ CandIds[i] = last_return'
            /\ \A j \in MinActive(Candidates) :
                 \/ Candidates[i].total_requests < Candidates[j].total_requests
                 \/ /\ Candidates[i].total_requests = Candidates[j].total_requests
                    /\ IdRank(CandIds[i]) <= IdRank(CandIds[j])]_vars

\* C12 (amended): among the candidates that share the minimum
\* active_connections get_instance returns the one registered first (the first
\* in the order of LoadBalancer.instances); total_requests and id play no part.
C12_FirstRegisteredWins ==
  [][(strategy = "least_connections" /\ last_return' \in Ids)
       => \E i \in MinActive(Candidates) :
            /\ CandIds[i] = last_return'
            /\ \A j \in MinActive(Candidates) : i <= j]_vars

C12_Witness ==
  /\ strategy = "least_connections"
  /\ last_return = "ollama-2"
  /\ Len(Candidates) = 2
  /\ CandIds[1] = "ollama-2"
  /\ Inst("ollama-2").active_connections = Inst("ollama-1").active_connections + 1
  /\ Inst("ollama-1").total_requests < Inst("ollama-2").total_requests - 1

\* C13: update_metrics on a registered backend lowers active_connections by 1
\* but not below 0; with success it sets error_count to 0 and leaves
\* is_healthy; without success it adds 1 to error_count and clears is_healthy
\* exactly when the new error_count is 5 or more.
C13_UpdateMetricsEffect ==
  [][\A id \in Registered :
       LET a == Inst(id)
           b == Inst(id)'
       IN /\ b.successful_requests = a.successful_requests + 1 =>
               /\ b.active_connections = Max(0, a.active_connections - 1)
               /\ b.error_count = 0
               /\ b.is_healthy = a.is_healthy
               /\ b.failed_requests = a.failed_requests
          /\ b.failed_requests = a.failed_requests + 1 =>
               /\ b.active_connections = Max(0, a.active_connections - 1)
               /\ b.error_count = a.error_count + 1
               /\ b.is_healthy = (a.is_healthy /\ a.error_count + 1 < ERROR_THRESHOLD)
               /\ b.successful_requests = a.successful_requests]_vars

C13_Witness ==
  \E id \in Registered :
    /\ Inst(id).failed_requests >= ERROR_THRESHOLD
    /\ Inst(id).error_count = ERROR_THRESHOLD
    /\ Inst(id).successful_requests = 0
    /\ ~Inst(id).is_healthy
    /\ health_event[id] = "error_threshold"
    /\ Inst(id).active_connections = 0

\* C14: active_connections of every backend is >= 0 in every reachable state,
\* also when update_metrics or release_instance are called more often than
\* get_instance.
C14_ActiveConnectionsNonNegative ==
  \A i \in 1..Len(instances) : instances[i].active_connections >= 0

C14_Witness ==
  \E id \in Registered :
    /\ Inst(id).active_connections = 0
    /\ Inst(id).total_requests >= 1
    /\ Inst(id).successful_requests + Inst(id).failed_requests > Inst(id).total_requests

\* C15 (as stated): successful_requests + failed_requests <= total_requests
\* for every backend in every reachable state.
C15_Original ==
  \A i \in 1..Len(instances) :
    instances[i].successful_requests + instances[i].failed_requests
      <= instances[i].total_requests

\* C16: add_instance with an id that is already registered leaves exactly one
\* backend with that id and leaves its weight, health flag and counters, the
\* other backends, instance_list and request_distribution unchanged.
C16_AddInstanceIdempotent ==
  [][(seen' # seen /\ seen'.op = "add_instance") =>
       /\ instances' = instances
       /\ instance_list' = instance_list
       /\ request_distribution' = request_distribution
       /\ Cardinality({i \in 1..Len(instances') :
                         instances'[i].instance_id = seen'.id}) = 1]_vars

C16_Witness ==
  /\ seen.op = "add_instance"
  /\ Has(seen.id)
  /\ Inst(seen.id).weight # seen.weight
  /\ Inst(seen.id).total_requests >= 1
  /\ ~Inst(seen.id).is_healthy

\* C17 (as stated): after set(k, v, ttl), also with v the empty string, a
\* get(k) made before ttl seconds have elapsed returns v and a get(k) made
\* after ttl seconds have elapsed returns a miss.
C17_Original ==
  (seen.op = "get" /\ Written # NoValue /\ Written.key = seen.key) =>
    LET w == Written
    IN IF seen.at < w.at + w.ttl
       THEN seen.result # NoValue /\ seen.result.json = w.value
       ELSE seen.result = NoValue

\* C19 (as stated): when the key/value service is unreachable (never
\* connected, or failing on the call) a get returns a miss, a set returns
\* false, and the call adds 1 to the error counter.
Unreachable == seen.op \in {"get", "set"} /\ (~seen.connected \/ seen.failed)
C19_Original ==
  Unreachable =>
    /\ seen.op = "get" => seen.result = NoValue
    /\ seen.op = "set" => seen.result = FALSE
    /\ cache.errors = seen.errors_before + 1

\* C19 (amended): when the service is unreachable a get returns a miss and a
\* set returns false; the call adds 1 to the error counter when it failed on
\* an established connection, and leaves the counter unchanged when the
\* connection was never established (redis is None).
C19_ErrorsCountedWhenConnected ==
  Unreachable =>
    /\ seen.op = "get" => seen.result = NoValue
    /\ seen.op = "set" => seen.result = FALSE
    /\ cache.errors = seen.errors_before + (IF seen.connected THEN 1 ELSE 0)

C19_Witness ==
  /\ seen.op = "get"
  /\ ~seen.connected
  /\ Written # NoValue
  /\ seen.errors_before = 1
  /\ cache.errors = 1

\* C18: a generate call with stream = true or cache = false makes no cache get
\* and no cache set: whenever the cache (entries or counters) changes, the
\* step was taken by a non-streaming call with cache = true.
C18_CacheBypassed ==
  [][cache' # cache =>
       \E s \in Slots : gen'[s] # gen[s] /\ gen[s].cache /\ ~gen[s].stream]_vars

C18_Witness ==
  /\ cache.redis
  /\ cache.hits + cache.misses + cache.errors = 0
  /\ \E s \in Slots :
       /\ gen[s].stream /\ gen[s].cache
       /\ gen[s].pc = "done"
       /\ Len(gen[s].delivered) >= 1
  /\ stats.total_requests >= 2

\* C20 (as stated): for an endpoint class with limit L, a client's first L
\* requests to it within a window are admitted and its next request within
\* the window is answered 429; the window is reset only when more than 60
\* seconds have passed since the window's first admitted request.
C20_Original ==
  (seen.op = "dispatch" /\ get_endpoint_limit(seen.class) # 0) =>
    /\ seen.earlier < get_endpoint_limit(seen.class) => seen.status = "call_next"
    /\ seen.earlier >= get_endpoint_limit(seen.class) => seen.status = "429"
    /\ seen.reset => seen.elapsed > WINDOW

\* the count the middleware holds against client c when a request to a
\* limited class arrives: one entry per client, whatever the class
Used(c, k) == IF rate_limits[c] = NoWindow THEN <<0, 0>> ELSE rate_limits[c]

\* C21 (as stated): the buckets are keyed by (client address, endpoint
\* class): a request to one class changes neither the count nor the window
\* start of the same client's bucket for another limited class.
C21_Original ==
  [][\A c \in Clients, k \in EndpointClasses :
       (seen' # seen /\ seen'.op = "dispatch" /\ seen'.class # k
          /\ get_endpoint_limit(k) # 0)
         => Used(c, k)' = Used(c, k)]_vars

RECURSIVE Concat(_)
Concat(texts) == IF texts = <<>> THEN "" ELSE texts[1] \o Concat(Tail(texts))

\* C22: for every streaming call, whether it completes or fails part-way, the
\* concatenation of the chunk texts delivered to the consumer equals the
\* concatenation of the response fields of the backend frames received so
\* far, in order: no chunk is reordered, duplicated, dropped or added.
C22_ChunksAreBackendFrames ==
  \A s \in Slots :
    gen[s].stream =>
      /\ Concat(gen[s].delivered) = Concat(gen[s].sent)
      /\ Len(gen[s].delivered) = Len(gen[s].sent)

\* a stream that failed after two frames had been received and delivered
C22_Witness ==
  \E s \in Slots :
    /\ gen[s].stream /\ gen[s].pc = "raised" /\ gen[s].outcome = "failed"
    /\ Len(gen[s].sent) = 2 /\ Concat(gen[s].delivered) = "ab"

\* C23 (as stated): every SSE stream of /stream that ran to its end closes
\* with exactly one terminal frame and nothing after it: a done frame when
\* the upstream generation completed, an error frame when an error occurred.
C23_Original ==
  \A s \in Slots :
    (gen[s].stream /\ gen[s].pc \in {"done", "raised"}) =>
      LET frames == event_generator(gen[s])
          last == frames[Len(frames)]
      IN /\ Cardinality({i \in DOMAIN frames : frames[i].kind # "chunk"}) = 1
         /\ last.kind # "chunk"
         /\ gen[s].outcome = "completed" => last.kind = "done"
         /\ gen[s].outcome = "failed" => last.kind = "error"

\* C24 (as stated): when the consumer of a streaming call goes away after
\* some chunks were delivered, update_metrics has been called for the
\* reserved backend with success = false, once, and the backend's
\* failed_requests counts it.
C24_Original ==
  \A s \in Slots :
    (gen[s].stream /\ gen[s].pc = "closed" /\ Len(gen[s].delivered) >= 1) =>
      /\ gen[s].updates = <<FALSE>>
      /\ Inst(gen[s].instance).failed_requests >= 1

\* the bearer values the gate is to accept, given the users table
ValidBearer(b, users) ==
  \/ b.kind = "api_key"
  \/ /\ b.kind = "jwt" /\ b.signed /\ ~b.expired
     /\ IsNumeric(b.sub)
     /\ users[int(b.sub)] = "active"

\* C25 (as stated): an auth gate accepts a request exactly when its bearer
\* value is the configured API key or a validly signed, unexpired token whose
\* subject names an existing active user, and answers every other bearer
\* value 401 (never 500); this holds of the gate of /api/chat too.
C25_Original ==
  seen.op = "auth" =>
    IF ValidBearer(seen.bearer, seen.users)
    THEN seen.answer.status = 200
    ELSE seen.answer.status = 401

\* C27 (as stated): a request-level error raised inside a chat handler keeps
\* its status code: an empty or missing message is answered 400 and a
\* conversation that does not exist is answered 404.
C27_Original ==
  \A i \in 1..MaxChats :
    chat[i].pc = "responded" =>
      /\ chat[i].body = "400: Message is required" => chat[i].status = 400
      /\ chat[i].body = "404: Conversation not found" => chat[i].status = 404

\* C28: the job that create_finetune_job returns has status "pending" and
\* is the row just inserted: the background task that moves the row to
\* "running" does not run before the returned snapshot is built.
C28_ReturnedJobIsPending ==
  seen.op = "create_finetune_job" =>
    /\ seen.returned.status = "pending"
    /\ seen.returned.id \in DOMAIN db.jobs

\* a second job was created while the task of the first was running, and
\* its own task has run since
C28_Witness ==
  /\ seen.op = "create_finetune_job"
  /\ seen.returned.id = 2 /\ seen.others = {"running"}
  /\ db.jobs[2].status = "running"

\* the step in which a probe of the backend registered as id is answered
ProbeStep(id) ==
  /\ seen' # seen /\ seen'.op = "probe" /\ seen'.id = id
  /\ Has(id)

\* C26 (as stated): a probe answered with any 2xx status sets is_healthy
\* true and health_check_failures 0; a probe that fails, times out or is
\* answered with another status sets is_healthy false and increments
\* health_check_failures.
C26_Original ==
  [][\A id \in Ids :
       (ProbeStep(id) /\ seen'.live) =>
         IF seen'.status \in {"200", "204"}
         THEN Inst(id)'.is_healthy /\ Inst(id)'.health_check_failures = 0
         ELSE /\ ~Inst(id)'.is_healthy
              /\ Inst(id)'.health_check_failures = Inst(id).health_check_failures + 1]_vars

\* C26 (amended): a probe succeeds exactly when it is answered with status
\* 200.  A successful probe calls mark_healthy (is_healthy true,
\* health_check_failures 0) when the probed instance object is unhealthy and
\* writes nothing otherwise, which leaves a backend that was not removed
\* meanwhile healthy with no failures; every other answer (another 2xx
\* included), error or timeout sets is_healthy false and increments
\* health_check_failures by 1.  No other field and no other backend changes.
C26_ProbeEffect ==
  [][\A id \in Ids :
       ProbeStep(id) =>
         /\ IF seen'.status = "200"
            THEN /\ seen'.object_healthy => instances' = instances
                 /\ ~seen'.object_healthy =>
                      /\ Inst(id)'.is_healthy
                      /\ Inst(id)'.health_check_failures = 0
                 /\ seen'.live =>
                      /\ Inst(id)'.is_healthy
                      /\ Inst(id)'.health_check_failures = 0
            ELSE /\ ~Inst(id)'.is_healthy
                 /\ Inst(id)'.health_check_failures =
                      Inst(id).health_check_failures + 1
         /\ instances' = [instances EXCEPT
              ![Pos(id)].is_healthy = Inst(id)'.is_healthy,
              ![Pos(id)].health_check_failures = Inst(id)'.health_check_failures]]_vars

\* a healthy backend was probed, the probe was answered 204, and the backend
\* is now unhealthy with one failure counted
C26_Witness ==
  /\ seen.op = "probe" /\ seen.status = "204" /\ seen.live /\ seen.object_healthy
  /\ Has(seen.id)
  /\ ~Inst(seen.id).is_healthy
  /\ Inst(seen.id).health_check_failures = 1

\* C29: each get_instance call either returns a registered backend S with
\* S.active_connections and S.total_requests each one higher and every other
\* field and backend as before, or fails with an error and leaves every
\* backend as it was.
C29_GetInstanceFrame ==
  [][total_requests' # total_requests =>
       \/ /\ last_return' \in Registered
          /\ instances' =
               [instances EXCEPT
                  ![Pos(last_return')].active_connections = @ + 1,
                  ![Pos(last_return')].total_requests = @ + 1]
       \/ /\ last_return' \in GetInstanceErrors
          /\ instances' = instances]_vars

\* a backend was returned while the other one held a reservation of its own
C29_Witness ==
  /\ last_return \in Ids
  /\ Inst(last_return).active_connections = 1
  /\ \E other \in Registered \ {last_return} :
       Inst(other).active_connections >= 1 /\ Inst(other).total_requests >= 1

\* C30: with the weighted strategy get_instance never returns a backend of
\* weight 0 when the candidates contain a backend of positive weight (with
\* no positive weight among them it raises instead of returning).
C30_WeightedSkipsZeroWeight ==
  [][(total_requests' # total_requests /\ strategy = "weighted"
        /\ last_return' \in Ids)
       => /\ Inst(last_return').weight > 0
          /\ TotalWeight(Candidates) > 0]_vars

\* a backend was returned while a candidate of weight 0 stood beside it
C30_Witness ==
  /\ strategy = "weighted"
  /\ \E i, j \in 1..Len(CandIds) :
       /\ CandIds[i] = last_return /\ Inst(CandIds[i]).weight > 0
       /\ Inst(CandIds[j]).weight = 0

\* C31: a streaming generate call reserves no backend after its first chunk
\* was delivered: a failure after any chunk never leads to another
\* get_instance call, whatever the call does next.
C31_NoReserveAfterFirstChunk ==
  [][\A s \in Slots :
       (gen[s].stream /\ gen[s].pc \notin Finished \cup {"idle"}
          /\ Len(gen[s].delivered) >= 1)
         => gen'[s].reserved = gen[s].reserved]_vars

\* a stream failed after two chunks had been delivered, with one reservation
C31_Witness ==
  \E s \in Slots :
    /\ gen[s].stream /\ gen[s].pc = "raised" /\ gen[s].outcome = "failed"
    /\ Len(gen[s].delivered) = 2
    /\ gen[s].reserved = 1
    /\ stats.errors >= 1

\* C32 (as stated): after initialize the registry holds exactly one backend
\* per URL of the comma-separated OLLAMA_INSTANCES setting, with ids
\* ollama-1..ollama-n in configuration order, and one backend for
\* OLLAMA_BASE_URL when the setting is empty.
C32_Original ==
  seen.op = "initialize" =>
    LET urls == get_ollama_instances(seen.setting)
    IN /\ seen.urls = urls
       /\ instance_list = [i \in 1..Len(urls) |-> OllamaIds[i]]
       /\ Len(instances) = Len(urls)

\* C33: after any sequence of add_instance and remove_instance calls, the
\* keys of instances, the ids in instance_list and the keys of
\* request_distribution are the same set, and instance_list has no duplicate.
C33_RegistryViewsAgree ==
  /\ {instance_list[i] : i \in 1..Len(instance_list)} = Registered
  /\ DOMAIN request_distribution = Registered
  /\ \A i, j \in 1..Len(instance_list) : instance_list[i] = instance_list[j] => i = j
  /\ \A i, j \in 1..Len(instances) :
       instances[i].instance_id = instances[j].instance_id => i = j

\* an id was added twice and removed afterwards, while the other backend,
\* which has served a request, stays registered
C33_Witness ==
  /\ seen.op = "add_instance" /\ ~Has(seen.id)
  /\ \E other \in Registered : request_distribution[other] >= 1

\* C34: in every reachable state a backend whose is_healthy flag is true has
\* health_check_failures = 0, under any interleaving of mark_healthy,
\* mark_unhealthy, update_metrics, get_instance and the prober.
C34_HealthyHasNoFailures ==
  \A id \in Registered :
    Inst(id).is_healthy => Inst(id).health_check_failures = 0

\* a backend that a failed probe had marked unhealthy is healthy again
\* after a successful probe, and has served requests
C34_Witness ==
  \E id \in Registered :
    /\ Inst(id).is_healthy /\ Inst(id).health_check_failures = 0
    /\ health_event[id] = "mark_healthy" /\ last_probe[id] = "ok"
    /\ Inst(id).failed_requests >= 1 /\ Inst(id).total_requests >= 1

\* C35: mark_healthy changes only is_healthy and health_check_failures and
\* leaves error_count as it is, so a backend re-enabled with error_count at
\* the threshold is disabled again by its next failed request; error_count
\* returns to 0 only through update_metrics with success = true.
C35_MarkHealthyKeepsErrorCount ==
  [][\A id \in Registered :
       /\ (~Inst(id).is_healthy /\ Inst(id)'.is_healthy) =>
            Inst(id)' = [Inst(id) EXCEPT !.is_healthy = TRUE,
                                         !.health_check_failures = 0]
       /\ (Inst(id).error_count > 0 /\ Inst(id)'.error_count = 0) =>
            Inst(id)'.successful_requests = Inst(id).successful_requests + 1
       /\ (Inst(id).error_count >= ERROR_THRESHOLD
             /\ Inst(id)'.failed_requests = Inst(id).failed_requests + 1) =>
            ~Inst(id)'.is_healthy]_vars

\* a backend disabled by five failures in a row was re-enabled by a probe
\* and disabled again by its next failed request
C35_Witness ==
  \E id \in Registered :
    /\ Inst(id).error_count = ERROR_THRESHOLD + 1
    /\ ~Inst(id).is_healthy
    /\ health_event[id] = "error_threshold"
    /\ last_probe[id] = "ok"

\* C36: under any interleaving of requests the number of requests a client
\* is admitted with to one rate-limited endpoint class within one window
\* never exceeds the class's limit, and a rejected request leaves the
\* client's bucket as it was.
C36_AdmittedWithinLimit ==
  [][/\ \A c \in Clients, k \in EndpointClasses :
          get_endpoint_limit(k) # 0 => WindowCounts'[c][k] <= get_endpoint_limit(k)
     /\ (seen'.op = "dispatch" /\ seen'.status = "429") =>
          rate_limits' = rate_limits]_vars

\* a client used up the limit of the pull class within one window and its
\* next pull request was rejected
C36_Witness ==
  /\ seen.op = "dispatch" /\ seen.status = "429" /\ seen.class = "pull"
  /\ WindowCounts[seen.client]["pull"] = PULL_LIMIT
  /\ rate_limits[seen.client][1] = PULL_LIMIT

\* C37 (as stated): once cancel_job has set a job's status to "cancelled",
\* the status never changes again: the job's background task does not
\* overwrite it with "running", "completed" or "failed".
C37_Original ==
  [][\A j \in DOMAIN db.jobs :
       db.jobs[j].status = "cancelled" => db'.jobs[j].status = "cancelled"]_vars

\* C39 (as stated): for every caller identity, the API key's identity with
\* id 0 included, get_conversation returns no conversation owned by another
\* user and cancel_job cancels no job owned by another user.
C39_Original ==
  /\ (seen.op = "get_conversation" /\ seen.result # NoRow) =>
       seen.owner = seen.user_id
  /\ (seen.op = "cancel_job" /\ seen.result) => seen.owner = seen.user_id

\* C38: update_metrics, release_instance, mark_healthy, mark_unhealthy and
\* remove_instance called with an id that is not registered leave the whole
\* registry as it was.
C38_UnknownIdLeavesRegistry ==
  [][(seen' # seen /\ seen'.op \in UnknownIdOps) =>
       /\ instances' = instances
       /\ instance_list' = instance_list
       /\ request_distribution' = request_distribution
       /\ current_index' = current_index
       /\ total_requests' = total_requests
       /\ strategy' = strategy]_vars

\* mark_unhealthy named a backend that had been reserved by a request and
\* removed since, while another backend is registered
C38_Witness ==
  /\ seen.op = "mark_unhealthy" /\ ~Has(seen.id)
  /\ total_requests >= 1
  /\ \E other \in Registered : Inst(other).is_healthy /\ Inst(other).total_requests = 0

\* C40: a non-streaming cacheable generate call whose lookup the cache
\* answers with a stored entry yields exactly the stored text and reserves
\* no backend: every backend record and the balancer's request count are as
\* they were before the lookup was answered.
C40_Original ==
  [][\A s \in Slots :
       (/\ gen[s].pc = "cache_get"
        /\ gen'[s] # gen[s]
        /\ cache'.hits = cache.hits + 1)
       => /\ gen'[s].pc = "yield_cached"
          /\ gen'[s].delivered = <<cache.store[cache_key(gen[s])].json>>
          /\ gen'[s].reserved = gen[s].reserved
          /\ instances' = instances
          /\ total_requests' = total_requests
          /\ request_distribution' = request_distribution]_vars

====
